---- MODULE Spec2Model ----
(***************************************************************************)
(* Model of the Troll reaction engine (troll.go, handle_message.go).        *)
(*                                                                         *)
(* Processes: the setup task and the status loop launched by Troll.Run in   *)
(* an errgroup, Troll.Run itself, and NumHandlers concurrent invocations of *)
(* Troll.OnNewMessage made by the update dispatcher.  Every remote call is  *)
(* a suspension point: the step that issues it and the step that receives   *)
(* its answer are separate actions.  The two RWMutexes are modelled with    *)
(* Go's semantics (a pending writer blocks new readers).                    *)
(***************************************************************************)
EXTENDS Integers, Sequences, FiniteSets, TLC

\* ---------------------------------------------------------------- bounds
NumHandlers == 1
MaxDocs == 2

Handlers == 1..NumHandlers

\* ---------------------------------------------------------------- values
\* A nil pointer / absent value.
Nil == [kind |-> "nil"]

UserIDs == {1, 2}
MsgIDs == {1}
DocIDs == {1, 2}

\* tg.InputPeerUser as returned by Resolve(...).AsInputPeer for a user.
InputPeerUser(id) == [kind |-> "inputPeerUser", UserID |-> id, AccessHash |-> id + 10]
\* Any other InputPeerClass the resolver may return (a chat or a channel).
InputPeerChat == [kind |-> "inputPeerChat", ChatID |-> 9]
\* tg.InputPeerUser{}: the zero value checkUserID returns with ok = false.
ZeroInputPeerUser == [kind |-> "inputPeerUser", UserID |-> 0, AccessHash |-> 0]

\* tg.Document and tg.DocumentEmpty, the two DocumentClass constructors.
Document(id) == [kind |-> "document", ID |-> id, AccessHash |-> id + 20, FileReference |-> id + 30, Size |-> id + 40]
DocumentEmpty == [kind |-> "documentEmpty", ID |-> 0]
\* tg.Document{}: the zero value checkSticker returns with ok = false.
ZeroDocument == [kind |-> "document", ID |-> 0, AccessHash |-> 0, FileReference |-> 0, Size |-> 0]

DocumentClasses == {Document(i) : i \in DocIDs} \cup {DocumentEmpty}

\* set.Documents: every ordered collection of at most MaxDocs items.
StickerSets == UNION {[1..n -> DocumentClasses] : n \in 0..MaxDocs}

\* tg.MessagesStickerSet, the answer of MessagesGetStickerSet.
StickerSet(docs) == [kind |-> "messagesStickerSet", Documents |-> docs]

\* DocumentClass.AsNotEmpty
AsNotEmpty(d) == IF d.kind = "document" THEN <<d, TRUE>> ELSE <<Nil, FALSE>>

\* Document.AsInputDocumentFileLocation: keeps the three addressing fields.
AsInputDocumentFileLocation(d) ==
    [kind |-> "inputDocumentFileLocation", ID |-> d.ID, AccessHash |-> d.AccessHash,
     FileReference |-> d.FileReference, ThumbSize |-> ""]

\* Peers of an inbound message: msg.GetPeerID().
PeerUser(id) == [kind |-> "peerUser", UserID |-> id]
PeerChat == [kind |-> "peerChat", ChatID |-> 9]
Peers == {PeerUser(i) : i \in UserIDs} \cup {PeerChat}

\* update.Message: a *tg.Message, or a service message (any other MessageClass).
Message(out, peer, id) == [kind |-> "message", Out |-> out, PeerID |-> peer, ID |-> id]
MessageService == [kind |-> "messageService", Out |-> FALSE, PeerID |-> PeerChat, ID |-> 0]
Updates == {Message(o, p, i) : o \in BOOLEAN, p \in Peers, i \in MsgIDs} \cup {MessageService}

\* Errors.
NoErr == "nil"


ErrResolve == "get user: resolve"
ErrUnexpectedType == "get user: unexpected type"
ErrStatusLoop == "status loop: context canceled"
ErrSend == "send failed"
ErrDelete == "delete failed"

WarnNone == "none"
WarnGetStickerSet == "get sticker set"
WarnSetEmpty == "sticker set is empty"
WarnLastEmpty == "last sticker is empty document"

\* ------------------------------------------------------- pure functions
\* Variants of checkUserID: one that reports true on a nil pointer, one that
\* skips the comparison of identifiers.
checkUserID_nilAdmits(res, id) ==
    IF res = Nil THEN <<ZeroInputPeerUser, TRUE>>
    ELSE IF res.UserID # id THEN <<ZeroInputPeerUser, FALSE>>
    ELSE <<res, TRUE>>

checkUserID_anyUser(res, id) ==
    IF res = Nil THEN <<ZeroInputPeerUser, FALSE>>
    ELSE <<res, TRUE>>

\* Variant of checkUserID that returns the user ID of the target without its
\* access hash.
checkUserID_idOnly(res, id) ==
    IF res = Nil THEN <<ZeroInputPeerUser, FALSE>>
    ELSE IF res.UserID # id THEN <<ZeroInputPeerUser, FALSE>>
    ELSE <<[res EXCEPT !.AccessHash = 0], TRUE>>

\* Troll.checkUserID, on the pointer read under the read lock.
checkUserID(res, id) ==
    IF res = Nil THEN <<ZeroInputPeerUser, FALSE>>
    ELSE IF res.UserID # id THEN <<ZeroInputPeerUser, FALSE>>
    ELSE <<res, TRUE>>

\* Variant of checkSticker that reports true on a nil pointer.
checkSticker_nilPresent(stk) ==
    IF stk = Nil THEN <<ZeroDocument, TRUE>>
    ELSE <<stk, TRUE>>

\* Troll.checkSticker, on the pointer read under the read lock.
checkSticker(stk) ==
    IF stk = Nil THEN <<ZeroDocument, FALSE>>
    ELSE <<stk, TRUE>>

\* Variant of selectSticker that takes the first document of the set.
selectSticker_first(docs) ==
    IF Len(docs) < 1 THEN <<Nil, WarnSetEmpty>>
    ELSE LET r == AsNotEmpty(docs[1])
         IN  IF ~r[2] THEN <<Nil, WarnLastEmpty>> ELSE <<r[1], WarnNone>>

\* Troll.getSticker after a successful fetch: the document to store and the
\* error it returns (WarnNone when it stores the document).
selectSticker(docs) ==
    IF Len(docs) < 1 THEN <<Nil, WarnSetEmpty>>
    ELSE LET r == AsNotEmpty(docs[Len(docs)])
         IN  IF ~r[2] THEN <<Nil, WarnLastEmpty>> ELSE <<r[1], WarnNone>>

\* Troll.getUser after a successful resolve: the peer to store and the error.
selectUser(p) ==
    IF p.kind # "inputPeerUser" THEN <<Nil, ErrUnexpectedType>>
    ELSE <<p, NoErr>>

\* Variant of setupAfterUser that only logs the error, as setup does for
\* getSticker.
setupAfterUser_swallowed(err) == NoErr

\* Troll.setup's result once getUser has returned err # nil.
setupAfterUser(err) == err

\* Variant of setupAfterSticker that returns the error, as setup does for
\* getUser.
setupAfterSticker_fatal(warn) == IF warn # WarnNone THEN warn ELSE NoErr

\* Troll.setup's result once getSticker has returned warn (logged when it is
\* an error).
setupAfterSticker(warn) == NoErr

\* Variant of isUserMessage without the test of the outgoing flag.
isUserMessage_outgoingToo(u) ==
    /\ u.kind = "message"
    /\ u.PeerID.kind = "peerUser"

\* The admission tests OnNewMessage makes on the update alone.
isUserMessage(u) ==
    /\ u.kind = "message"
    /\ ~u.Out
    /\ u.PeerID.kind = "peerUser"

\* The outbound calls of the two dispatch actions.
replyCall(resolved, msgID, sticker) ==
    [op |-> "reply", peer |-> resolved, msg |-> msgID,
     doc |-> AsInputDocumentFileLocation(sticker), res |-> "pending"]
forwardCall(resolved, msgID) ==
    [op |-> "forward", peer |-> resolved, msg |-> msgID, doc |-> Nil, res |-> "pending"]
deleteCall(msgID) ==
    [op |-> "delete", peer |-> Nil, msg |-> msgID, doc |-> Nil, res |-> "pending"]

\* ---------------------------------------------------------------- state
VARIABLES
    resolved,        \* t.resolved: Nil or an InputPeerUser
    sticker,         \* t.sticker: Nil or a Document
    resolvedMux,     \* t.resolvedMux: [readers, writer]
    stickerMux,      \* t.stickerMux: [readers, writer]
    extCancelled,    \* the context passed to Run has been cancelled
    gCancelled,      \* the errgroup has cancelled its derived context
    gErr,            \* errgroup's first error
    statusLoopOn,    \* Run's statusLoop argument
    runPc, runRet,   \* Troll.Run
    setupPc,         \* the setup task
    setupLocal,      \* setup's local value about to be stored
    setupCalls,      \* the remote calls setup has issued, in order
    setResp,         \* getSticker's local set (Nil when not recorded)
    stickerWarn,     \* the error getSticker returned, which setup logs
    setupRet,        \* the error the setup task returned ("none" while it runs)
    statusPc,        \* the status loop task
    statusRet,       \* the error the status loop task returned
    hPc, hUpd,       \* per handler: position and the update being handled
    hResolved,       \* per handler: the InputPeerUser checkUserID returned
    hCalls,          \* per handler: outbound calls of this invocation, in order
    hRet,            \* per handler: the value OnNewMessage returned
    limiter,         \* t.limiter: the tokens left in its bucket
    recordSet        \* history switch: setResp outlives the selection of the sticker

storeVars == <<resolved, sticker, resolvedMux, stickerMux>>
groupVars == <<extCancelled, gCancelled, gErr>>
runVars == <<statusLoopOn, runPc, runRet>>
setupVars == <<setupPc, setupLocal, setupCalls, setResp, stickerWarn, setupRet>>
statusVars == <<statusPc, statusRet>>
handlerVars == <<hPc, hUpd, hResolved, hCalls, hRet>>
vars == <<storeVars, groupVars, runVars, setupVars, statusVars, handlerVars, limiter, recordSet>>

FreeMux == [readers |-> {}, writer |-> "none"]

\* rate.NewLimiter(rate.Every(15*time.Second), 1): a bucket of one token,
\* full at construction.
LimiterBurst == 1

\* ctx.Done() of the errgroup's context: the parent or the group cancelled it.
CtxDone == extCancelled \/ gCancelled

\* NewTroll, and no update dispatched yet.
InitTroll ==
    /\ limiter = LimiterBurst
    /\ resolved = Nil
    /\ sticker = Nil
    /\ resolvedMux = FreeMux
    /\ stickerMux = FreeMux
    /\ extCancelled = FALSE
    /\ gCancelled = FALSE
    /\ gErr = NoErr
    /\ statusLoopOn = FALSE
    /\ runPc = "init"
    /\ runRet = "none"
    /\ setupPc = "idle"
    /\ setupLocal = Nil
    /\ setupCalls = <<>>
    /\ setResp = Nil
    /\ stickerWarn = WarnNone
    /\ setupRet = "none"
    /\ statusPc = "off"
    /\ statusRet = "none"
    /\ hPc = [h \in Handlers |-> "idle"]
    /\ hUpd = [h \in Handlers |-> MessageService]
    /\ hResolved = [h \in Handlers |-> ZeroInputPeerUser]
    /\ hCalls = [h \in Handlers |-> <<>>]
    /\ hRet = [h \in Handlers |-> "none"]

\* The fetched set is kept as history until getSticker returns.
Init == InitTroll /\ recordSet = TRUE

\* The fetched set is dropped as soon as the sticker has been selected from
\* it: the behaviours are the same, with less history.
InitNoHistory == InitTroll /\ recordSet = FALSE

\* ------------------------------------------------------------- RWMutex
CanRLock(m) == m.writer = "none"
RLock(m, h) == [m EXCEPT !.readers = @ \cup {h}]
RUnlock(m, h) == [m EXCEPT !.readers = @ \ {h}]
LockRequest(m) == [m EXCEPT !.writer = "pending"]
\* Variant of CanLock in which the writer does not wait for the readers.
CanLock_ignoresReaders(m) == m.writer = "pending"
CanLock(m) == m.writer = "pending" /\ m.readers = {}
LockAcquire(m) == [m EXCEPT !.writer = "held"]
Unlock(m) == [m EXCEPT !.writer = "none"]

\* ------------------------------------------------------------ errgroup
\* Variant of GroupErr that keeps the last error instead of the first.
GroupErr_last(err) == IF err # NoErr THEN err ELSE gErr

\* A task of the group returns err: the first non-nil error is kept and the
\* derived context is cancelled.
GroupErr(err) == IF err # NoErr /\ gErr = NoErr THEN err ELSE gErr
GroupCancel(err) == IF err # NoErr THEN TRUE ELSE gCancelled

\* ------------------------------------------------------------ Troll.Run
\* Run launches setup and, when asked, the status loop, then blocks on the
\* group's context.
RunStart(flag) ==
    /\ runPc = "init"
    /\ runPc' = "waitCtx"
    /\ statusLoopOn' = flag
    /\ setupPc' = "start"
    /\ statusPc' = IF flag THEN "select" ELSE "off"
    /\ UNCHANGED <<recordSet, limiter, storeVars, groupVars, runRet, setupLocal, setupCalls, setResp,
                   stickerWarn, setupRet, statusRet, handlerVars>>

\* Variant of RunCtxDone that goes to g.Wait() without blocking on the
\* context.
RunCtxDone_noBlock ==
    /\ runPc = "waitCtx"
    /\ runPc' = "wait"
    /\ UNCHANGED <<recordSet, limiter, storeVars, groupVars, statusLoopOn, runRet, setupVars, statusVars, handlerVars>>

\* <-ctx.Done()
RunCtxDone ==
    /\ runPc = "waitCtx"
    /\ CtxDone
    /\ runPc' = "wait"
    /\ UNCHANGED <<recordSet, limiter, storeVars, groupVars, statusLoopOn, runRet, setupVars, statusVars, handlerVars>>

\* Variant of RunWait that returns without waiting for the tasks.
RunWait_noWait ==
    /\ runPc = "wait"
    /\ runPc' = "returned"
    /\ runRet' = gErr
    /\ gCancelled' = TRUE
    /\ UNCHANGED <<recordSet, limiter, storeVars, extCancelled, gErr, statusLoopOn, setupVars, statusVars, handlerVars>>

\* g.Wait(): every launched task has returned; Wait cancels the context and
\* returns the group's first error.
RunWait ==
    /\ runPc = "wait"
    /\ setupPc = "done"
    /\ statusPc \in {"off", "done"}
    /\ runPc' = "returned"
    /\ runRet' = gErr
    /\ gCancelled' = TRUE
    /\ UNCHANGED <<recordSet, limiter, storeVars, extCancelled, gErr, statusLoopOn, setupVars, statusVars, handlerVars>>

\* The caller of Run cancels the context it passed.
ExternalCancel ==
    /\ ~extCancelled
    /\ extCancelled' = TRUE
    /\ UNCHANGED <<recordSet, limiter, storeVars, gCancelled, gErr, runVars, setupVars, statusVars, handlerVars>>

\* ---------------------------------------------------------- Troll.setup
\* getUser issues the resolve call.
GetUserCall ==
    /\ setupPc = "start"
    /\ setupPc' = "resolve"
    /\ setupCalls' = Append(setupCalls, "resolve")
    /\ UNCHANGED <<recordSet, limiter, storeVars, groupVars, runVars, setupLocal, setResp, stickerWarn,
                   setupRet, statusVars, handlerVars>>

\* Variant of GetUserFail in which setup logs the failure and goes on to
\* getSticker, as it does after a failure of getSticker.
GetUserFail_continues ==
    /\ setupPc = "resolve"
    /\ setupPc' = "getStickerSet"
    /\ setupCalls' = Append(setupCalls, "getStickerSet")
    /\ UNCHANGED <<recordSet, limiter, storeVars, groupVars, runVars, setupLocal, setResp,
                   stickerWarn, setupRet, statusVars, handlerVars>>

\* The resolve call fails: getUser and setup return the error, the task ends.
GetUserFail ==
    /\ setupPc = "resolve"
    /\ setupPc' = "done"
    /\ setupRet' = setupAfterUser(ErrResolve)
    /\ gErr' = GroupErr(setupAfterUser(ErrResolve))
    /\ gCancelled' = GroupCancel(setupAfterUser(ErrResolve))
    /\ UNCHANGED <<recordSet, limiter, storeVars, extCancelled, runVars, setupLocal, setupCalls, setResp,
                   stickerWarn, statusVars, handlerVars>>

\* The resolve call answers p: a non-user peer ends setup with an error, a
\* user peer is kept and the write lock requested.
GetUserResolved(p) ==
    /\ setupPc = "resolve"
    /\ LET r == selectUser(p)
       IN  IF r[2] # NoErr
           THEN /\ setupPc' = "done"
                /\ setupRet' = setupAfterUser(r[2])
                /\ gErr' = GroupErr(setupAfterUser(r[2]))
                /\ gCancelled' = GroupCancel(setupAfterUser(r[2]))
                /\ UNCHANGED <<setupLocal, resolvedMux>>
           ELSE /\ setupPc' = "lockResolved"
                /\ setupLocal' = r[1]
                /\ resolvedMux' = LockRequest(resolvedMux)
                /\ UNCHANGED <<setupRet, gErr, gCancelled>>
    /\ UNCHANGED <<recordSet, limiter, resolved, sticker, stickerMux, extCancelled, runVars, setupCalls, setResp,
                   stickerWarn, statusVars, handlerVars>>

\* t.resolvedMux.Lock() returns.
GetUserLock ==
    /\ setupPc = "lockResolved"
    /\ CanLock(resolvedMux)
    /\ resolvedMux' = LockAcquire(resolvedMux)
    /\ setupPc' = "writeResolved"
    /\ UNCHANGED <<recordSet, limiter, resolved, sticker, stickerMux, groupVars, runVars, setupLocal, setupCalls,
                   setResp, stickerWarn, setupRet, statusVars, handlerVars>>

\* t.resolved = userPeer; Unlock; getUser returns nil and getSticker issues
\* the sticker set fetch.
GetUserStore ==
    /\ setupPc = "writeResolved"
    /\ resolved' = setupLocal
    /\ resolvedMux' = Unlock(resolvedMux)
    /\ setupLocal' = Nil
    /\ setupPc' = "getStickerSet"
    /\ setupCalls' = Append(setupCalls, "getStickerSet")
    /\ UNCHANGED <<recordSet, limiter, sticker, stickerMux, groupVars, runVars, setResp, stickerWarn, setupRet,
                   statusVars, handlerVars>>

\* Variant of GetStickerFail in which setup starts over after the warning.
GetStickerFail_retries ==
    /\ setupPc = "getStickerSet"
    /\ stickerWarn' = WarnGetStickerSet
    /\ setupPc' = "start"
    /\ UNCHANGED <<recordSet, limiter, storeVars, groupVars, runVars, setupLocal, setupCalls, setResp,
                   setupRet, statusVars, handlerVars>>

\* The fetch fails: getSticker returns an error, setup logs it and returns nil.
GetStickerFail ==
    /\ setupPc = "getStickerSet"
    /\ stickerWarn' = WarnGetStickerSet
    /\ setupPc' = "done"
    /\ setupRet' = setupAfterSticker(WarnGetStickerSet)
    /\ gErr' = GroupErr(setupAfterSticker(WarnGetStickerSet))
    /\ gCancelled' = GroupCancel(setupAfterSticker(WarnGetStickerSet))
    /\ UNCHANGED <<recordSet, limiter, storeVars, extCancelled, runVars, setupLocal, setupCalls, setResp,
                   statusVars, handlerVars>>

\* The fetch answers docs: an empty set or an empty last document makes
\* getSticker return an error (setup logs it and returns nil); otherwise the
\* last document is kept and the write lock requested.
GetStickerFetched(docs) ==
    /\ setupPc = "getStickerSet"
    /\ LET r == selectSticker(docs)
       IN  IF r[2] # WarnNone
           THEN /\ stickerWarn' = r[2]
                /\ setResp' = Nil
                /\ setupPc' = "done"
                /\ setupRet' = setupAfterSticker(r[2])
                /\ gErr' = GroupErr(setupAfterSticker(r[2]))
                /\ gCancelled' = GroupCancel(setupAfterSticker(r[2]))
                /\ UNCHANGED <<setupLocal, stickerMux>>
           ELSE /\ setupPc' = "lockSticker"
                /\ setResp' = IF recordSet THEN StickerSet(docs) ELSE Nil
                /\ setupLocal' = r[1]
                /\ stickerMux' = LockRequest(stickerMux)
                /\ UNCHANGED <<stickerWarn, setupRet, gErr, gCancelled>>
    /\ UNCHANGED <<recordSet, limiter, resolved, sticker, resolvedMux, extCancelled, runVars, setupCalls,
                   statusVars, handlerVars>>

\* t.stickerMux.Lock() returns.
GetStickerLock ==
    /\ setupPc = "lockSticker"
    /\ CanLock(stickerMux)
    /\ stickerMux' = LockAcquire(stickerMux)
    /\ setupPc' = "writeSticker"
    /\ UNCHANGED <<recordSet, limiter, resolved, sticker, resolvedMux, groupVars, runVars, setupLocal, setupCalls,
                   setResp, stickerWarn, setupRet, statusVars, handlerVars>>

\* t.sticker = sticker; Unlock; getSticker and setup return nil.
GetStickerStore ==
    /\ setupPc = "writeSticker"
    /\ sticker' = setupLocal
    /\ stickerMux' = Unlock(stickerMux)
    /\ setupLocal' = Nil
    /\ setResp' = Nil
    /\ setupPc' = "done"
    /\ setupRet' = setupAfterSticker(WarnNone)
    /\ gErr' = GroupErr(setupAfterSticker(WarnNone))
    /\ gCancelled' = GroupCancel(setupAfterSticker(WarnNone))
    /\ UNCHANGED <<recordSet, limiter, resolved, resolvedMux, extCancelled, runVars, setupCalls,
                   stickerWarn, statusVars, handlerVars>>

\* ----------------------------------------------------- Troll.statusLoop
\* case <-ticker.C: the loop issues AccountUpdateStatus.
StatusTick ==
    /\ statusPc = "select"
    /\ statusPc' = "update"
    /\ UNCHANGED <<recordSet, limiter, storeVars, groupVars, runVars, setupVars, statusRet, handlerVars>>

\* The call returns nil: the loop selects again.
StatusUpdated ==
    /\ statusPc = "update"
    /\ statusPc' = "select"
    /\ UNCHANGED <<recordSet, limiter, storeVars, groupVars, runVars, setupVars, statusRet, handlerVars>>

\* The call returns an error: the loop is about to log it.
StatusUpdateFailed ==
    /\ statusPc = "update"
    /\ statusPc' = "warn"
    /\ UNCHANGED <<recordSet, limiter, storeVars, groupVars, runVars, setupVars, statusRet, handlerVars>>

\* Variant of StatusWarn in which the loop returns the error of the call.
StatusWarn_returns ==
    /\ statusPc = "warn"
    /\ statusPc' = "done"
    /\ statusRet' = "status loop: update status"
    /\ gErr' = GroupErr("status loop: update status")
    /\ gCancelled' = GroupCancel("status loop: update status")
    /\ UNCHANGED <<recordSet, limiter, storeVars, extCancelled, runVars, setupVars, handlerVars>>

\* t.logger.Warn("Got error"): the loop selects again.
StatusWarn ==
    /\ statusPc = "warn"
    /\ statusPc' = "select"
    /\ UNCHANGED <<recordSet, limiter, storeVars, groupVars, runVars, setupVars, statusRet, handlerVars>>

\* case <-ctx.Done(): the loop returns ctx.Err(), the task ends.
StatusCancelled ==
    /\ statusPc = "select"
    /\ CtxDone
    /\ statusPc' = "done"
    /\ statusRet' = ErrStatusLoop
    /\ gErr' = GroupErr(ErrStatusLoop)
    /\ gCancelled' = GroupCancel(ErrStatusLoop)
    /\ UNCHANGED <<recordSet, limiter, storeVars, extCancelled, runVars, setupVars, handlerVars>>

\* --------------------------------------------------- Troll.OnNewMessage
SetRes(calls, r) == [calls EXCEPT ![Len(calls)].res = r]

\* The dispatcher invokes the handler with update u; the tests on the update
\* alone return nil at once, otherwise checkUserID is entered.
OnNewMessage(h, u) ==
    /\ hPc[h] \in {"idle", "done"}
    /\ hUpd' = [hUpd EXCEPT ![h] = u]
    /\ hResolved' = [hResolved EXCEPT ![h] = ZeroInputPeerUser]
    /\ hCalls' = [hCalls EXCEPT ![h] = <<>>]
    /\ IF isUserMessage(u)
       THEN /\ hPc' = [hPc EXCEPT ![h] = "rlockResolved"]
            /\ hRet' = [hRet EXCEPT ![h] = "none"]
       ELSE /\ hPc' = [hPc EXCEPT ![h] = "done"]
            /\ hRet' = [hRet EXCEPT ![h] = NoErr]
    /\ UNCHANGED <<recordSet, limiter, storeVars, groupVars, runVars, setupVars, statusVars>>

\* t.resolvedMux.RLock() returns.
CheckUserIDLock(h) ==
    /\ hPc[h] = "rlockResolved"
    /\ CanRLock(resolvedMux)
    /\ resolvedMux' = RLock(resolvedMux, h)
    /\ hPc' = [hPc EXCEPT ![h] = "readResolved"]
    /\ UNCHANGED <<recordSet, limiter, resolved, sticker, stickerMux, groupVars, runVars, setupVars, statusVars,
                   hUpd, hResolved, hCalls, hRet>>

\* Variant of CheckUserID that returns without releasing the read lock.
CheckUserID_keepsLock(h) ==
    /\ hPc[h] = "readResolved"
    /\ LET r == checkUserID(resolved, hUpd[h].PeerID.UserID)
       IN  /\ hResolved' = [hResolved EXCEPT ![h] = r[1]]
           /\ IF r[2]
              THEN /\ hPc' = [hPc EXCEPT ![h] = "rlockSticker"]
                   /\ UNCHANGED hRet
              ELSE /\ hPc' = [hPc EXCEPT ![h] = "done"]
                   /\ hRet' = [hRet EXCEPT ![h] = NoErr]
    /\ UNCHANGED <<recordSet, limiter, storeVars, groupVars, runVars, setupVars, statusVars,
                   hUpd, hCalls>>

\* checkUserID reads t.resolved, unlocks and compares; OnNewMessage returns
\* nil when it reports false and goes on to checkSticker otherwise.
CheckUserID(h) ==
    /\ hPc[h] = "readResolved"
    /\ resolvedMux' = RUnlock(resolvedMux, h)
    /\ LET r == checkUserID(resolved, hUpd[h].PeerID.UserID)
       IN  /\ hResolved' = [hResolved EXCEPT ![h] = r[1]]
           /\ IF r[2]
              THEN /\ hPc' = [hPc EXCEPT ![h] = "rlockSticker"]
                   /\ UNCHANGED hRet
              ELSE /\ hPc' = [hPc EXCEPT ![h] = "done"]
                   /\ hRet' = [hRet EXCEPT ![h] = NoErr]
    /\ UNCHANGED <<recordSet, limiter, resolved, sticker, stickerMux, groupVars, runVars, setupVars, statusVars,
                   hUpd, hCalls>>

\* t.stickerMux.RLock() returns.
CheckStickerLock(h) ==
    /\ hPc[h] = "rlockSticker"
    /\ CanRLock(stickerMux)
    /\ stickerMux' = RLock(stickerMux, h)
    /\ hPc' = [hPc EXCEPT ![h] = "readSticker"]
    /\ UNCHANGED <<recordSet, limiter, resolved, sticker, resolvedMux, groupVars, runVars, setupVars, statusVars,
                   hUpd, hResolved, hCalls, hRet>>

\* Variant of Dispatch that asks the limiter first: an event that finds the
\* bucket empty is dropped.
Dispatch_limited(h, bit) ==
    /\ hPc[h] = "readSticker"
    /\ stickerMux' = RUnlock(stickerMux, h)
    /\ LET r == checkSticker(sticker)
       IN  IF limiter = 0
           THEN /\ hPc' = [hPc EXCEPT ![h] = "done"]
                /\ hRet' = [hRet EXCEPT ![h] = NoErr]
                /\ UNCHANGED <<hCalls, limiter>>
           ELSE /\ limiter' = limiter - 1
                /\ UNCHANGED hRet
                /\ IF r[2] /\ bit = 0
                   THEN /\ hPc' = [hPc EXCEPT ![h] = "reply"]
                        /\ hCalls' = [hCalls EXCEPT ![h] =
                                         Append(@, replyCall(hResolved[h], hUpd[h].ID, r[1]))]
                   ELSE /\ hPc' = [hPc EXCEPT ![h] = "forward"]
                        /\ hCalls' = [hCalls EXCEPT ![h] =
                                         Append(@, forwardCall(hResolved[h], hUpd[h].ID))]
    /\ UNCHANGED <<recordSet, resolved, sticker, resolvedMux, groupVars, runVars, setupVars, statusVars,
                   hUpd, hResolved>>

\* checkSticker reads t.sticker and unlocks; with a sticker and an even
\* rand.Int() the reply is sent (ignored), otherwise the forward (revoke).
Dispatch(h, bit) ==
    /\ hPc[h] = "readSticker"
    /\ stickerMux' = RUnlock(stickerMux, h)
    /\ LET r == checkSticker(sticker)
       IN  IF r[2] /\ bit = 0
           THEN /\ hPc' = [hPc EXCEPT ![h] = "reply"]
                /\ hCalls' = [hCalls EXCEPT ![h] =
                                 Append(@, replyCall(hResolved[h], hUpd[h].ID, r[1]))]
           ELSE /\ hPc' = [hPc EXCEPT ![h] = "forward"]
                /\ hCalls' = [hCalls EXCEPT ![h] =
                                 Append(@, forwardCall(hResolved[h], hUpd[h].ID))]
    /\ UNCHANGED <<recordSet, limiter, resolved, sticker, resolvedMux, groupVars, runVars, setupVars, statusVars,
                   hUpd, hResolved, hRet>>

\* Variant of ReplyDone in which a failed reply cancels the group's context,
\* as the failure of a task of the group does.
ReplyDone_cancels(h, ok) ==
    /\ hPc[h] = "reply"
    /\ hCalls' = [hCalls EXCEPT ![h] = SetRes(@, IF ok THEN "ok" ELSE "failed")]
    /\ hRet' = [hRet EXCEPT ![h] = IF ok THEN NoErr ELSE ErrSend]
    /\ hPc' = [hPc EXCEPT ![h] = "done"]
    /\ gErr' = GroupErr(IF ok THEN NoErr ELSE ErrSend)
    /\ gCancelled' = GroupCancel(IF ok THEN NoErr ELSE ErrSend)
    /\ UNCHANGED <<recordSet, limiter, storeVars, extCancelled, runVars, setupVars, statusVars, hUpd, hResolved>>

\* Variant of ReplyDone that forgets the cached sticker when the send fails.
ReplyDone_dropsSticker(h, ok) ==
    /\ hPc[h] = "reply"
    /\ hCalls' = [hCalls EXCEPT ![h] = SetRes(@, IF ok THEN "ok" ELSE "failed")]
    /\ hRet' = [hRet EXCEPT ![h] = IF ok THEN NoErr ELSE ErrSend]
    /\ hPc' = [hPc EXCEPT ![h] = "done"]
    /\ sticker' = IF ok THEN sticker ELSE Nil
    /\ UNCHANGED <<recordSet, limiter, resolved, resolvedMux, stickerMux, groupVars, runVars,
                   setupVars, statusVars, hUpd, hResolved>>

\* ignored: the reply call returns and its error is OnNewMessage's result.
ReplyDone(h, ok) ==
    /\ hPc[h] = "reply"
    /\ hCalls' = [hCalls EXCEPT ![h] = SetRes(@, IF ok THEN "ok" ELSE "failed")]
    /\ hRet' = [hRet EXCEPT ![h] = IF ok THEN NoErr ELSE ErrSend]
    /\ hPc' = [hPc EXCEPT ![h] = "done"]
    /\ UNCHANGED <<recordSet, limiter, storeVars, groupVars, runVars, setupVars, statusVars, hUpd, hResolved>>

\* Variant of ForwardDone that returns the forward error instead of going on
\* to the delete call.
ForwardDone_returnsError(h, ok) ==
    /\ hPc[h] = "forward"
    /\ IF ok
       THEN /\ hCalls' = [hCalls EXCEPT ![h] = Append(SetRes(@, "ok"), deleteCall(hUpd[h].ID))]
            /\ hPc' = [hPc EXCEPT ![h] = "delete"]
            /\ UNCHANGED hRet
       ELSE /\ hCalls' = [hCalls EXCEPT ![h] = SetRes(@, "failed")]
            /\ hPc' = [hPc EXCEPT ![h] = "done"]
            /\ hRet' = [hRet EXCEPT ![h] = ErrSend]
    /\ UNCHANGED <<recordSet, limiter, storeVars, groupVars, runVars, setupVars, statusVars, hUpd, hResolved>>

\* revoke: the forward call returns (an error is only logged) and the delete
\* call is issued.
ForwardDone(h, ok) ==
    /\ hPc[h] = "forward"
    /\ hCalls' = [hCalls EXCEPT ![h] =
                     Append(SetRes(@, IF ok THEN "ok" ELSE "failed"), deleteCall(hUpd[h].ID))]
    /\ hPc' = [hPc EXCEPT ![h] = "delete"]
    /\ UNCHANGED <<recordSet, limiter, storeVars, groupVars, runVars, setupVars, statusVars, hUpd, hResolved, hRet>>

\* revoke: the delete call returns and its error is OnNewMessage's result.
DeleteDone(h, ok) ==
    /\ hPc[h] = "delete"
    /\ hCalls' = [hCalls EXCEPT ![h] = SetRes(@, IF ok THEN "ok" ELSE "failed")]
    /\ hRet' = [hRet EXCEPT ![h] = IF ok THEN NoErr ELSE ErrDelete]
    /\ hPc' = [hPc EXCEPT ![h] = "done"]
    /\ UNCHANGED <<recordSet, limiter, storeVars, groupVars, runVars, setupVars, statusVars, hUpd, hResolved>>

\* ------------------------------------------------------- specification
\* What resolving the configured domain can answer: its user, or a peer of
\* another type.
ResolveAnswers == {InputPeerUser(1), InputPeerChat}

Next ==
    \/ \E flag \in BOOLEAN : RunStart(flag)
    \/ RunCtxDone
    \/ RunWait
    \/ ExternalCancel
    \/ GetUserCall
    \/ GetUserFail
    \/ \E p \in ResolveAnswers : GetUserResolved(p)
    \/ GetUserLock
    \/ GetUserStore
    \/ GetStickerFail
    \/ \E docs \in StickerSets : GetStickerFetched(docs)
    \/ GetStickerLock
    \/ GetStickerStore
    \/ StatusTick
    \/ StatusUpdated
    \/ StatusUpdateFailed
    \/ StatusWarn
    \/ StatusCancelled
    \/ \E h \in Handlers, u \in Updates : OnNewMessage(h, u)
    \/ \E h \in Handlers : CheckUserIDLock(h)
    \/ \E h \in Handlers : CheckUserID(h)
    \/ \E h \in Handlers : CheckStickerLock(h)
    \/ \E h \in Handlers, bit \in {0, 1} : Dispatch(h, bit)
    \/ \E h \in Handlers, ok \in BOOLEAN : ReplyDone(h, ok)
    \/ \E h \in Handlers, ok \in BOOLEAN : ForwardDone(h, ok)
    \/ \E h \in Handlers, ok \in BOOLEAN : DeleteDone(h, ok)

Spec == Init /\ [][Next]_vars

\* Fairness: every launched task, Run itself and every started handler keep
\* running, and every remote call in flight eventually answers.  The select
\* of the status loop picks a ready case at random, so the cancellation case
\* is taken eventually once it stays ready at every select (strong fairness).
\* Nothing obliges the dispatcher to deliver updates, or the caller of Run to
\* call it or to cancel its context.
SetupStep ==
    \/ GetUserCall
    \/ GetUserFail
    \/ \E p \in ResolveAnswers : GetUserResolved(p)
    \/ GetUserLock
    \/ GetUserStore
    \/ GetStickerFail
    \/ \E docs \in StickerSets : GetStickerFetched(docs)
    \/ GetStickerLock
    \/ GetStickerStore

StatusStep ==
    \/ StatusTick
    \/ StatusUpdated
    \/ StatusUpdateFailed
    \/ StatusWarn
    \/ StatusCancelled

HandlerStep(h) ==
    \/ CheckUserIDLock(h)
    \/ CheckUserID(h)
    \/ CheckStickerLock(h)
    \/ \E bit \in {0, 1} : Dispatch(h, bit)
    \/ \E ok \in BOOLEAN : ReplyDone(h, ok)
    \/ \E ok \in BOOLEAN : ForwardDone(h, ok)
    \/ \E ok \in BOOLEAN : DeleteDone(h, ok)

Fairness ==
    /\ WF_vars(RunCtxDone)
    /\ WF_vars(RunWait)
    /\ WF_vars(SetupStep)
    /\ WF_vars(StatusStep)
    /\ SF_vars(StatusCancelled)
    /\ \A h \in Handlers : WF_vars(HandlerStep(h))

FairSpec == InitNoHistory /\ [][Next]_vars /\ Fairness

\* ================================================================ claims
\* Positions of a handler that has passed the admission filter.
Admitted(h) == hPc[h] \in {"rlockSticker", "readSticker", "reply", "forward", "delete"} \/ hCalls[h] # <<>>

\* A handler invocation that was rejected: it has returned nil and has issued
\* no outbound call.
Rejected(h) == hPc[h] = "done" /\ hCalls[h] = <<>> /\ hRet[h] = NoErr

\* The updates the claims call filtered: not a plain message, or flagged
\* outgoing, or with a peer that is not an individual user.
FilteredUpdate(u) == u.kind # "message" \/ u.Out = TRUE \/ u.PeerID.kind # "peerUser"

\* C1: while the resolved target is absent, no handler invocation has passed
\* the admission filter or issued an outbound call, and every invocation that
\* has returned has returned nil, whatever update it was given.
C1_NoOpBeforeTarget ==
    resolved = Nil =>
        \A h \in Handlers :
            /\ ~Admitted(h)
            /\ hCalls[h] = <<>>
            /\ hPc[h] = "done" => hRet[h] = NoErr

\* C1 witness: setup has resolved the target but not stored it yet, and a
\* non-outgoing message from that very user has been handled and rejected.
C1_Witness ==
    /\ resolved = Nil
    /\ setupPc = "lockResolved"
    /\ \E h \in Handlers :
        /\ hUpd[h] = Message(FALSE, PeerUser(setupLocal.UserID), 1)
        /\ Rejected(h)

\* C2: a handler that reads a present target T for a non-outgoing user message
\* with T's identifier goes on to the dispatch; a handler is never admitted
\* unless the target is present and its update is such a message, and a
\* handler that was not admitted returns nil without any outbound call.
C2_AdmittedOnlyTarget ==
    \A h \in Handlers :
        /\ Admitted(h) =>
            /\ resolved # Nil
            /\ ~FilteredUpdate(hUpd[h])
            /\ hUpd[h].PeerID.UserID = resolved.UserID
            /\ hResolved[h] = resolved
        /\ (hPc[h] = "done" /\ ~Admitted(h)) => Rejected(h)

C2_ReadAdmits ==
    \A h \in Handlers :
        (/\ hPc[h] = "readResolved"
         /\ hPc'[h] # "readResolved"
         /\ resolved # Nil
         /\ hUpd[h].PeerID.UserID = resolved.UserID)
        => hPc'[h] = "rlockSticker"

C2_Admission == []C2_AdmittedOnlyTarget /\ [][C2_ReadAdmits]_vars

\* C2 witness: the target is stored, and a message from that user has been
\* admitted and its dispatch action started.
C2_Witness ==
    /\ resolved # Nil
    /\ \E h \in Handlers :
        /\ hUpd[h] = Message(FALSE, PeerUser(resolved.UserID), 1)
        /\ hPc[h] \in {"reply", "forward"}

\* C3: an update that is not a plain message, or is outgoing, or whose peer is
\* not a user has been rejected as soon as the handler was invoked: no
\* outbound call, nil returned, whatever the store holds.
C3_FilteredUpdates ==
    \A h \in Handlers :
        (hPc[h] # "idle" /\ FilteredUpdate(hUpd[h])) => Rejected(h)

\* C3 witness: target and sticker are both present and an outgoing message to
\* the target user has been rejected.
C3_Witness ==
    /\ resolved # Nil
    /\ sticker # Nil
    /\ \E h \in Handlers :
        /\ hUpd[h] = Message(TRUE, PeerUser(resolved.UserID), 1)
        /\ Rejected(h)

\* C4: a handler that reads an absent sticker starts the revoke action (its
\* forward call) and not the reply; and while the sticker is absent no reply
\* call has been issued by any handler.
C4_NoReplyYet ==
    sticker = Nil =>
        \A h \in Handlers :
            /\ hPc[h] # "reply"
            /\ \A i \in DOMAIN hCalls[h] : hCalls[h][i].op # "reply"

C4_ReadAbsent ==
    \A h \in Handlers :
        (hPc[h] = "readSticker" /\ hPc'[h] # "readSticker" /\ sticker = Nil)
        => /\ hPc'[h] = "forward"
           /\ hCalls'[h] = <<forwardCall(hResolved[h], hUpd[h].ID)>>

C4_AbsentAssetRevokes == []C4_NoReplyYet /\ [][C4_ReadAbsent]_vars

\* C4 witness: setup is over without a sticker and an admitted message is in
\* the revoke action.
C4_Witness ==
    /\ setupPc = "done"
    /\ sticker = Nil
    /\ \E h \in Handlers : hPc[h] = "delete"

\* C5: in the revoke action the calls are the forward and then the delete,
\* once each, the delete is issued whatever the forward answered, and the
\* value returned is the outcome of the delete alone.
C5_RevokeSequence ==
    \A h \in Handlers :
        LET c == hCalls[h] IN
        /\ hPc[h] = "forward" => c = <<forwardCall(hResolved[h], hUpd[h].ID)>>
        /\ hPc[h] = "delete" =>
            /\ Len(c) = 2
            /\ c[1].op = "forward" /\ c[1].res \in {"ok", "failed"}
            /\ c[2] = deleteCall(hUpd[h].ID)
        /\ (hPc[h] = "done" /\ c # <<>> /\ c[1].op = "forward") =>
            /\ Len(c) = 2
            /\ c[1].res \in {"ok", "failed"}
            /\ c[2].op = "delete" /\ c[2].msg = hUpd[h].ID
            /\ c[2].res \in {"ok", "failed"}
            /\ hRet[h] = IF c[2].res = "ok" THEN NoErr ELSE ErrDelete

\* C5 witness: the forward failed, the delete succeeded, nil was returned.
C5_Witness ==
    \E h \in Handlers :
        /\ hPc[h] = "done"
        /\ Len(hCalls[h]) = 2
        /\ hCalls[h][1].op = "forward" /\ hCalls[h][1].res = "failed"
        /\ hCalls[h][2].op = "delete" /\ hCalls[h][2].res = "ok"
        /\ hRet[h] = NoErr

\* Identity resolution has failed: setup is over and stored no target.
ResolutionFailed == setupPc = "done" /\ resolved = Nil

\* Asset acquisition has failed: setup issued the fetch and is over without a
\* sticker.
AcquisitionFailed ==
    /\ setupPc = "done"
    /\ setupCalls = <<"resolve", "getStickerSet">>
    /\ sticker = Nil

\* C6: when identity resolution fails setup returns an error without having
\* issued the sticker set fetch, target and sticker stay absent and the
\* group's context is cancelled; from then on the status loop, if launched,
\* stops and Run returns a non-nil error, with no need of the external
\* cancellation.
C6_FailedState ==
    ResolutionFailed =>
        /\ setupRet \in {ErrResolve, ErrUnexpectedType}
        /\ setupCalls = <<"resolve">>
        /\ sticker = Nil
        /\ gCancelled
        /\ gErr # NoErr
        /\ runPc = "returned" => runRet # NoErr

C6_Stopped ==
    /\ runPc = "returned"
    /\ runRet # NoErr
    /\ statusPc \in {"off", "done"}

C6_ResolveFailureAborts == []C6_FailedState /\ (ResolutionFailed ~> C6_Stopped)

\* C6 witness: the resolver answered a non-user peer, the launched status
\* loop has stopped and Run has returned setup's error while the external
\* context is still live.
C6_Witness ==
    /\ ResolutionFailed
    /\ setupRet = ErrUnexpectedType
    /\ statusLoopOn /\ statusPc = "done"
    /\ runPc = "returned" /\ runRet = ErrUnexpectedType
    /\ ~extCancelled

\* C7: when identity resolution succeeds and asset acquisition fails (fetch
\* error, empty set, empty last document), setup returns nil, the target is
\* present, the sticker stays absent and the failure is logged; as long as
\* the external context is live the group's context is not cancelled and Run
\* keeps blocking.
C7_AssetFailureTolerated ==
    AcquisitionFailed =>
        /\ setupRet = NoErr
        /\ resolved # Nil
        /\ stickerWarn \in {WarnGetStickerSet, WarnSetEmpty, WarnLastEmpty}
        /\ ~extCancelled =>
            /\ ~gCancelled
            /\ gErr = NoErr
            /\ runPc = "waitCtx"
            /\ statusPc # "done"

\* C7 witness: the set's last document was empty, setup is over, Run blocks.
C7_Witness ==
    /\ AcquisitionFailed
    /\ stickerWarn = WarnLastEmpty
    /\ resolved # Nil
    /\ runPc = "waitCtx"
    /\ ~extCancelled

\* C8: the sticker setup stores is the last document of the fetched set, and
\* every reply call carries the file location of the cached sticker, replies
\* to the handled message and is addressed to the resolved target.
C8_StoresLast ==
    sticker' # sticker =>
        /\ setResp # Nil
        /\ Len(setResp.Documents) >= 1
        /\ sticker' = setResp.Documents[Len(setResp.Documents)]
        /\ sticker'.kind = "document"

C8_ReplyUsesSticker ==
    \A h \in Handlers :
        \A i \in DOMAIN hCalls[h] :
            hCalls[h][i].op = "reply" =>
                /\ sticker # Nil
                /\ Len(hCalls[h]) = 1
                /\ hCalls[h][i].doc.ID = sticker.ID
                /\ hCalls[h][i].doc.AccessHash = sticker.AccessHash
                /\ hCalls[h][i].doc.FileReference = sticker.FileReference
                /\ hCalls[h][i].msg = hUpd[h].ID
                /\ hCalls[h][i].peer = resolved

C8_LastItemIsAsset == []C8_ReplyUsesSticker /\ [][C8_StoresLast]_vars

\* C8 witness: the second document of the set was stored and a reply with it
\* is in flight.
C8_Witness ==
    /\ sticker = Document(2)
    /\ \E h \in Handlers :
        /\ hPc[h] = "reply"
        /\ hCalls[h][1].doc.ID = 2

\* C9, as claimed: once a handler has returned the error of its reply or of
\* its delete while Run is blocking and the status loop is running, the
\* group's context gets cancelled, the status loop stops and Run returns.
C9_HandlerFailed == \E h \in Handlers : hPc[h] = "done" /\ hRet[h] \in {ErrSend, ErrDelete}

C9_Original ==
    (C9_HandlerFailed /\ runPc = "waitCtx" /\ statusLoopOn)
        ~> (gCancelled /\ statusPc = "done" /\ runPc = "returned")

\* C9, amended: the error of the reply or of the delete is returned to the
\* caller of OnNewMessage and nothing else: the step that returns it changes
\* neither the group, nor Run, nor the tasks, and the group's context is
\* cancelled only by the external cancellation or by setup's failure.
C9_ReturnOnly ==
    (\E h \in Handlers : hRet'[h] \in {ErrSend, ErrDelete} /\ hRet[h] = "none")
        => UNCHANGED <<storeVars, groupVars, runVars, setupVars, statusVars>>

C9_CancelCauses == gCancelled => (extCancelled \/ setupRet \in {ErrResolve, ErrUnexpectedType})

C9_Amended == []C9_CancelCauses /\ [][C9_ReturnOnly]_vars

\* C9 witness: a handler has returned an error, setup succeeded, and the
\* group's context is live, the status loop selecting and Run blocking.
C9_Witness ==
    /\ C9_HandlerFailed
    /\ setupPc = "done" /\ setupRet = NoErr
    /\ ~extCancelled /\ ~gCancelled
    /\ statusPc = "select"
    /\ runPc = "waitCtx"

\* C10: Run passes its wait on the context only once the external context is
\* cancelled or setup has failed; setup's success alone never lets it return.
C10_RunBlocks ==
    runPc \in {"wait", "returned"} =>
        (extCancelled \/ setupRet \in {ErrResolve, ErrUnexpectedType})

\* C10 witness: no status loop, setup completed successfully, Run blocking.
C10_Witness ==
    /\ ~statusLoopOn
    /\ setupPc = "done" /\ setupRet = NoErr
    /\ sticker # Nil
    /\ runPc = "waitCtx"
    /\ ~extCancelled

\* C11: the group keeps the first non-nil error in the order in which the
\* tasks return, and Run returns it: nil exactly when every launched task
\* returned nil, the status loop's cancellation error when the loop was
\* launched and setup succeeded.
C11_FirstErrorKept ==
    /\ (setupRet' # setupRet) =>
           gErr' = IF gErr # NoErr \/ setupRet' = NoErr THEN gErr ELSE setupRet'
    /\ (statusRet' # statusRet) =>
           gErr' = IF gErr # NoErr \/ statusRet' = NoErr THEN gErr ELSE statusRet'
    /\ (setupRet' = setupRet /\ statusRet' = statusRet) => gErr' = gErr

C11_Returned ==
    runPc = "returned" =>
        /\ runRet = gErr
        /\ runRet = NoErr <=> (setupRet = NoErr /\ (statusLoopOn => statusRet = NoErr))
        /\ (~statusLoopOn /\ setupRet = NoErr) => runRet = NoErr
        /\ (statusLoopOn /\ setupRet = NoErr) => runRet = ErrStatusLoop /\ statusRet = ErrStatusLoop
        /\ runRet # NoErr => runRet \in {setupRet, statusRet}

C11_RunResult == []C11_Returned /\ [][C11_FirstErrorKept]_vars

\* C11 witness: both tasks returned an error, setup first, and Run returned
\* setup's.
C11_Witness ==
    /\ runPc = "returned"
    /\ statusLoopOn
    /\ setupRet = ErrResolve
    /\ statusRet = ErrStatusLoop
    /\ runRet = ErrResolve

\* C12: a failed status update never ends the status loop: from the call or
\* from the warning the loop goes back to its select, where the next tick is
\* possible; the loop returns only from its select, only once its context is
\* cancelled, and what it returns is the cancellation error.
C12_LoopState ==
    /\ statusPc = "done" => (CtxDone /\ statusRet = ErrStatusLoop)
    /\ statusPc # "done" => statusRet = "none"
    /\ statusPc = "select" => ENABLED StatusTick

C12_LoopStep ==
    /\ statusPc = "update" => statusPc' \in {"update", "select", "warn"}
    /\ statusPc = "warn" => statusPc' \in {"warn", "select"}
    /\ (statusPc # "done" /\ statusPc' = "done") => (statusPc = "select" /\ CtxDone)

C12_LoopSurvivesFailures == []C12_LoopState /\ [][C12_LoopStep]_vars

\* C12 witness: a status update has failed while the context is live, and the
\* loop has not returned.
C12_Witness ==
    /\ statusPc = "warn"
    /\ ~CtxDone
    /\ statusRet = "none"

\* C13: a handler reads the target or the sticker only while it holds the
\* read lock and setup writes only while it holds the write lock with no
\* reader inside, so a read sees the field before or after the write as a
\* whole; what the read returns is the zero value or a copy of the stored
\* value, and the outbound calls of the handler carry that copy.
C13_Exclusion ==
    /\ resolvedMux.writer = "held" => resolvedMux.readers = {}
    /\ stickerMux.writer = "held" => stickerMux.readers = {}
    /\ \A h \in Handlers :
           /\ hPc[h] = "readResolved" <=> h \in resolvedMux.readers
           /\ hPc[h] = "readSticker" <=> h \in stickerMux.readers
           /\ \A i \in 1..Len(hCalls[h]) :
                  hCalls[h][i].op \in {"reply", "forward"} => hCalls[h][i].peer = hResolved[h]

C13_Access ==
    /\ resolved' # resolved =>
           /\ resolvedMux.writer = "held" /\ resolvedMux.readers = {}
           /\ resolved = Nil /\ resolved' \in {InputPeerUser(id) : id \in UserIDs}
    /\ sticker' # sticker =>
           /\ stickerMux.writer = "held" /\ stickerMux.readers = {}
           /\ sticker = Nil /\ sticker' \in {Document(id) : id \in DocIDs}
    /\ \A h \in Handlers :
           /\ (hPc[h] = "readResolved" /\ hPc'[h] # "readResolved") =>
                  /\ resolvedMux.writer # "held"
                  /\ resolved' = resolved
                  /\ hResolved'[h] \in {ZeroInputPeerUser, resolved}
           /\ (hPc[h] = "readSticker" /\ hPc'[h] # "readSticker") =>
                  /\ stickerMux.writer # "held"
                  /\ sticker' = sticker
                  /\ hPc'[h] = "reply" =>
                         /\ sticker # Nil
                         /\ hCalls'[h][Len(hCalls'[h])].doc.ID = sticker.ID

C14_StoreStep ==
    resolved' # resolved =>
        /\ setupPc = "writeResolved"
        /\ resolved' = setupLocal
        /\ setupLocal \in {InputPeerUser(id) : id \in UserIDs}

C14_ReadStep ==
    \A h \in Handlers :
        (hPc[h] = "readResolved" /\ hPc'[h] # "readResolved") =>
            /\ resolved = Nil =>
                   (hPc'[h] = "done" /\ hRet'[h] = NoErr /\ hResolved'[h] = ZeroInputPeerUser)
            /\ (resolved # Nil /\ hUpd[h].PeerID.UserID = resolved.UserID) =>
                   (hPc'[h] = "rlockSticker" /\ hResolved'[h] = resolved)

C14_TargetRoundTrip == [][C14_StoreStep /\ C14_ReadStep]_vars

\* C14 witness: the target is stored and a handler has read it back whole.
C14_Witness ==
    \E h \in Handlers :
        /\ hPc[h] = "rlockSticker"
        /\ resolved = InputPeerUser(1)
        /\ hResolved[h] = InputPeerUser(1)

\* C15: setup runs once: it is started once, never leaves its end, and sends
\* at most one resolve and one sticker set fetch; each field of the store is
\* written only while absent, and a present field keeps its value in every
\* later step, after cancellation and after Run returned too.
C15_SetupCalls ==
    setupCalls \in {<<>>, <<"resolve">>, <<"resolve", "getStickerSet">>}

C15_Step ==
    /\ resolved # Nil => resolved' = resolved
    /\ sticker # Nil => sticker' = sticker
    /\ (setupPc = "writeResolved" /\ setupPc' # "writeResolved") => resolved = Nil
    /\ (setupPc = "writeSticker" /\ setupPc' # "writeSticker") => sticker = Nil
    /\ setupPc = "done" => setupPc' = "done"
    /\ (setupPc # "start" /\ setupPc' = "start") => setupPc = "idle"

C15_WriteOnce == []C15_SetupCalls /\ [][C15_Step]_vars

\* C15 witness: Run has returned after the external cancellation, both fields
\* are present and a handler is still at work.
C15_Witness ==
    /\ runPc = "returned"
    /\ extCancelled
    /\ resolved # Nil
    /\ sticker # Nil
    /\ \E h \in Handlers : hPc[h] = "reply"

\* C16: Run has not returned while setup or a launched status loop is still
\* running, and once the external context is cancelled a Run that was called
\* returns eventually (every call in flight answers, every process keeps
\* taking steps, and the select of the status loop does not ignore a cancelled
\* context forever).
C16_TasksDone ==
    runPc = "returned" =>
        /\ setupPc = "done"
        /\ setupRet # "none"
        /\ statusLoopOn => (statusPc = "done" /\ statusRet # "none")
        /\ ~statusLoopOn => statusPc = "off"

C16_RunReturns ==
    /\ []C16_TasksDone
    /\ (extCancelled /\ runPc # "init") ~> (runPc = "returned")

\* C16 witness: after the external cancellation Run has returned with setup
\* finished successfully and the status loop ended.
C16_Witness ==
    /\ runPc = "returned"
    /\ extCancelled
    /\ statusLoopOn
    /\ statusPc = "done"
    /\ setupRet = NoErr
    /\ sticker # Nil

\* C17: no handler is inside both read locks, setup never has a hand on both
\* write locks, and no lock is held by a process whose outbound call is in
\* flight; whenever somebody waits for a lock of the store, a step of a
\* process that holds or can take that lock is enabled, so the waiting ends.
C17_InFlight(h) == hPc[h] \in {"reply", "forward", "delete"}

C17_ResolvedProgress ==
    \/ GetUserLock
    \/ GetUserStore
    \/ \E h \in Handlers : CheckUserIDLock(h) \/ CheckUserID(h)

C17_StickerProgress ==
    \/ GetStickerLock
    \/ GetStickerStore
    \/ \E h \in Handlers : CheckStickerLock(h) \/ \E bit \in {0, 1} : Dispatch(h, bit)

C18_Calls(h) == [i \in 1..Len(hCalls[h]) |-> hCalls[h][i].op]

C18_Dispatched ==
    /\ limiter = LimiterBurst
    /\ \A h \in Handlers :
           /\ C18_Calls(h) \in {<<>>, <<"reply">>, <<"forward">>, <<"forward", "delete">>}
           /\ hPc[h] = "reply" <=> (C18_Calls(h) = <<"reply">> /\ hCalls[h][1].res = "pending")
           /\ hPc[h] = "forward" <=> (C18_Calls(h) = <<"forward">> /\ hCalls[h][1].res = "pending")
           /\ hPc[h] = "delete" <=> (Len(hCalls[h]) = 2 /\ hCalls[h][2].res = "pending")
           /\ (hPc[h] = "done" /\ hResolved[h] # ZeroInputPeerUser) =>
                  C18_Calls(h) \in {<<"reply">>, <<"forward", "delete">>}

C18_DispatchStep ==
    \A h \in Handlers :
        (hPc[h] = "readSticker" /\ hPc'[h] # "readSticker") =>
            /\ hCalls[h] = <<>>
            /\ \/ hPc'[h] = "reply" /\ sticker # Nil
               \/ hPc'[h] = "forward"
            /\ Len(hCalls'[h]) = 1
            /\ limiter' = limiter

C18_ExactlyOneAction == []C18_Dispatched /\ [][C18_DispatchStep]_vars

\* C18 witness: an invocation has returned after its one reply was sent, and
\* the bucket of the limiter is still full.
C18_Witness ==
    \E h \in Handlers :
        /\ hPc[h] = "done"
        /\ C18_Calls(h) = <<"reply">>
        /\ hCalls[h][1].res = "ok"
        /\ limiter = LimiterBurst

\* C19: in every state a stored sticker comes with a stored target: setup
\* fetches and stores the sticker only after the target is stored.
C19_AssetImpliesTarget ==
    /\ sticker # Nil => resolved # Nil
    /\ setupPc \in {"getStickerSet", "lockSticker", "writeSticker"} => resolved # Nil
    /\ "getStickerSet" \in {setupCalls[i] : i \in 1..Len(setupCalls)} => resolved # Nil

\* C19 witness: both fields are stored and a handler is about to read the
\* sticker.
C19_Witness ==
    /\ sticker # Nil
    /\ resolved # Nil
    /\ \E h \in Handlers : hPc[h] = "readSticker"

\* C20: no step of a handler changes the target or the sticker, whatever the
\* update and however the invocation ends; the two fields change only in the
\* write steps of setup, which change nothing of a handler.
C20_StoreFrame ==
    /\ handlerVars' # handlerVars => (resolved' = resolved /\ sticker' = sticker)
    /\ resolved' # resolved =>
           (setupPc = "writeResolved" /\ setupPc' # setupPc /\ sticker' = sticker)
    /\ sticker' # sticker =>
           (setupPc = "writeSticker" /\ setupPc' # setupPc /\ resolved' = resolved)

C20_HandlersLeaveStore == [][C20_StoreFrame]_vars

\* C20 witness: an invocation has returned the error of its failed reply and
\* both fields of the store are still present.
C20_Witness ==
    \E h \in Handlers :
        /\ hPc[h] = "done"
        /\ hRet[h] = ErrSend
        /\ resolved # Nil
        /\ sticker # Nil

====
